---- MODULE Spec2Model ----
(***************************************************************************)
(* Model of the accuracy-scoring engine of the medical coding backend:     *)
(* calculateAccuracy(aiCodes, userCodes) of src/index.js, which compares   *)
(* the AI-proposed coding result with the human-corrected one.             *)
(*                                                                         *)
(* Numbers.  JavaScript numbers are doubles; the model keeps every         *)
(* non-integer quantity (accuracy, percentage) as an integer count of      *)
(* 1/Scale units, truncated.  Truncation at 1e-4 cannot move a value       *)
(* across a rounding threshold of Math.round(accuracy * 100), because the  *)
(* thresholds (k + 0.5) / 100 are themselves multiples of 1e-4; and for    *)
(* denominators below 32 the exact quotient is never on a threshold, so    *)
(* the double's own error (about 1e-14) cannot move it either.             *)
(***************************************************************************)
EXTENDS Integers, Sequences, FiniteSets, TLC

\* one call of calculateAccuracy: arguments, locals at return, returned object
VARIABLES aiCodes, userCodes, result, totalFields, correctFields, added, last

\* one call of extractCodesFromText: the parsed model reply, the returned object
VARIABLES llmResult, codesResult, epc

\* the extractions table, the requests waiting for the database, the last
\* response sent
VARIABLES records, reqs, reply

calcVars == <<aiCodes, userCodes, result, totalFields, correctFields, added, last>>

extractVars == <<llmResult, codesResult, epc>>

serverVars == <<records, reqs, reply>>

vars == <<calcVars, extractVars, serverVars>>

(***************************************************************************)
(* Bounds and value domains                                                *)
(***************************************************************************)
\* total size of the two arguments: list elements plus non-"" scalar slots
MaxInput == 4

Codes == {"I10", "E78.5", "Z79.01"}

ScalarCodes == {"I10", "E78.5"}

\* the JavaScript values undefined / null of a property that is absent
Undefined == "<undefined>"

ScalarVals == {Undefined, ""} \cup ScalarCodes

ScalarFields == {"admit_dx", "pdx", "modifier"}

ListFields == {"sdx", "cpt"}

\* a list property that holds something else than an array
NotArray == [isArray |-> FALSE, items |-> <<>>]

Arr(s) == [isArray |-> TRUE, items |-> s]

\* fixed-point resolution of the modelled doubles: 1 unit = 1e-4
Scale == 100 * 100

(***************************************************************************)
(* JavaScript primitives used by calculateAccuracy                         *)
(***************************************************************************)
\* truthiness test of `x || ...`
Falsy(v) == v = Undefined \/ v = ""

\* faulty variant: the default is forgotten
OrEmptyNoDefault(v) == v

\* `x || ''`
OrEmpty(v) == IF Falsy(v) THEN "" ELSE v

\* `Array.isArray(x) ? x : []`
ArrayOrEmpty(v) == IF v.isArray THEN v.items ELSE <<>>

\* faulty variant: looks at the first element only
IncludesFirstOnly(seq, code) == Len(seq) > 0 /\ seq[1] = code

\* Array.prototype.includes
Includes(seq, code) == \E i \in 1..Len(seq) : seq[i] = code

\* new Set([...a, ...b]).size
SetSize(a, b) == Cardinality({(a \o b)[i] : i \in 1..Len(a \o b)})

\* faulty variant: the value is not rounded at all
MathRoundSkipped(x) == x

\* Math.round on a fixed-point value: nearest integer, halves upwards
MathRound(x) == ((x + Scale \div 2) \div Scale) * Scale

(***************************************************************************)
(* calculateAccuracy, src/index.js 272-338                                 *)
(***************************************************************************)
\* faulty variant: the field is counted even when both sides are empty
ScalarCountedAlways(a, u) == TRUE

\* `if (aiCodes.f || userCodes.f)`
ScalarCounted(a, u) == ~Falsy(a) \/ ~Falsy(u)

\* faulty variant: match is the bare equality of the defaulted values
ScalarMatchUnguarded(a, u) == OrEmpty(a) = OrEmpty(u)

\* details.f.match: set only inside the guard, on strict equality
ScalarMatch(a, u) == ScalarCounted(a, u) /\ OrEmpty(a) = OrEmpty(u)

\* a comparison that ignores letter case
FoldCase(v) == IF v = "i10" THEN "I10" ELSE v

\* faulty variant: the values are recorded and compared case-folded
ScalarDetailFolded(a, u) ==
  [ai |-> FoldCase(OrEmpty(a)), user |-> FoldCase(OrEmpty(u)),
   match |-> ScalarCounted(a, u) /\ FoldCase(OrEmpty(a)) = FoldCase(OrEmpty(u))]

ScalarDetail(a, u) == [ai |-> OrEmpty(a), user |-> OrEmpty(u), match |-> ScalarMatch(a, u)]

ScalarTotal(a, u) == IF ScalarCounted(a, u) THEN 1 ELSE 0

\* faulty variant: every counted field is also counted as correct
ScalarCorrectCounted(a, u) == IF ScalarCounted(a, u) THEN 1 ELSE 0

ScalarCorrect(a, u) == IF ScalarMatch(a, u) THEN 1 ELSE 0

\* faulty variant: the filter keeps every code of ai
MatchesUnfiltered(ai, user) == ai

\* aiX.filter(code => userX.includes(code))
Matches(ai, user) == SelectSeq(ai, LAMBDA code : Includes(user, code))

\* faulty variant: the filter keeps every code of user
AdditionsUnfiltered(ai, user) == user

\* userX.filter(code => !aiX.includes(code))
Additions(ai, user) == SelectSeq(user, LAMBDA code : ~Includes(ai, code))

\* faulty variant: the filter tests the list against itself
RemovalsSelf(ai, user) == SelectSeq(ai, LAMBDA code : ~Includes(ai, code))

\* aiX.filter(code => !userX.includes(code))
Removals(ai, user) == SelectSeq(ai, LAMBDA code : ~Includes(user, code))

ListDetail(a, u) ==
  LET ai == ArrayOrEmpty(a)
      user == ArrayOrEmpty(u)
  IN [ai |-> ai, user |-> user, matches |-> Matches(ai, user),
      additions |-> Additions(ai, user), removals |-> Removals(ai, user)]

\* `if (aiX.length > 0 || userX.length > 0) totalFields += allCodes.size`
ListTotal(a, u) ==
  LET ai == ArrayOrEmpty(a)
      user == ArrayOrEmpty(u)
  IN IF Len(ai) > 0 \/ Len(user) > 0 THEN SetSize(ai, user) ELSE 0

\* `correctFields += details.x.matches.length` under the same guard
ListCorrect(a, u) ==
  LET ai == ArrayOrEmpty(a)
      user == ArrayOrEmpty(u)
  IN IF Len(ai) > 0 \/ Len(user) > 0 THEN Len(Matches(ai, user)) ELSE 0

\* what each field's block adds to totalFields / correctFields
Added(ai, user) ==
  [f \in ScalarFields \cup ListFields |->
     IF f \in ScalarFields
       THEN [total |-> ScalarTotal(ai[f], user[f]), correct |-> ScalarCorrect(ai[f], user[f])]
       ELSE [total |-> ListTotal(ai[f], user[f]), correct |-> ListCorrect(ai[f], user[f])]]

TotalFields(ai, user) ==
  ScalarTotal(ai.admit_dx, user.admit_dx) + ScalarTotal(ai.pdx, user.pdx)
    + ScalarTotal(ai.modifier, user.modifier)
    + ListTotal(ai.sdx, user.sdx) + ListTotal(ai.cpt, user.cpt)

CorrectFields(ai, user) ==
  ScalarCorrect(ai.admit_dx, user.admit_dx) + ScalarCorrect(ai.pdx, user.pdx)
    + ScalarCorrect(ai.modifier, user.modifier)
    + ListCorrect(ai.sdx, user.sdx) + ListCorrect(ai.cpt, user.cpt)

\* faulty variant: an empty comparison scores 0 instead of 100
AccuracyZeroFallback(correct, total) ==
  IF total > 0 THEN (correct * 100 * Scale) \div total ELSE 0

\* `totalFields > 0 ? (correctFields / totalFields) * 100 : 100`
Accuracy(correct, total) ==
  IF total > 0 THEN (correct * 100 * Scale) \div total ELSE 100 * Scale

\* `Math.round(accuracy * 100) / 100`
Percentage(accuracy) == MathRound(accuracy * 100) \div 100

Details(ai, user) ==
  [admit_dx |-> ScalarDetail(ai.admit_dx, user.admit_dx),
   pdx      |-> ScalarDetail(ai.pdx, user.pdx),
   sdx      |-> ListDetail(ai.sdx, user.sdx),
   cpt      |-> ListDetail(ai.cpt, user.cpt),
   modifier |-> ScalarDetail(ai.modifier, user.modifier)]

calculateAccuracy(ai, user) ==
  [percentage |-> Percentage(Accuracy(CorrectFields(ai, user), TotalFields(ai, user))),
   details    |-> Details(ai, user)]

(***************************************************************************)
(* extractCodesFromText, src/index.js 898-921                              *)
(*                                                                         *)
(* A JavaScript string that is split and trimmed is kept as a sequence of  *)
(* tokens: "," , " " (any whitespace) or a non-empty run of characters     *)
(* holding neither; split(',') and trim() only look at those two.          *)
(***************************************************************************)
TextCodes == {"45378", "43235"}

Tokens == {",", " "} \cup TextCodes

\* longest text enumerated
MaxText == 4

ExampleText == <<"45378", ",", " ", "43235", " ", ",", " ", " ">>

\* a truthy value that is neither a string nor an array, e.g. the number 42
OtherValue == "<number 42>"

\* a code with whitespace around it
PaddedCode == " I10"

\* values of a list property in the parsed reply: undefined / null, another
\* truthy non-array non-string value, an array of strings, a string
RawAbsent == [kind |-> "absent", items |-> <<>>, text |-> <<>>]

RawOther == [kind |-> "other", items |-> <<>>, text |-> <<>>]

RawArray(s) == [kind |-> "array", items |-> s, text |-> <<>>]

RawString(t) == [kind |-> "string", items |-> <<>>, text |-> t]

\* the characters of a token sequence as one string
RECURSIVE Join(_)
Join(t) == IF t = <<>> THEN "" ELSE Head(t) \o Join(Tail(t))

\* String.prototype.split(',')
RECURSIVE Split(_)
Split(t) ==
  IF \A i \in 1..Len(t) : t[i] # ","
    THEN <<t>>
    ELSE LET i == CHOOSE k \in 1..Len(t) : t[k] = "," /\ \A j \in 1..(k - 1) : t[j] # ","
         IN <<SubSeq(t, 1, i - 1)>> \o Split(SubSeq(t, i + 1, Len(t)))

RECURSIVE TrimStart(_)
TrimStart(t) == IF t # <<>> /\ Head(t) = " " THEN TrimStart(Tail(t)) ELSE t

RECURSIVE TrimEnd(_)
TrimEnd(t) == IF t # <<>> /\ t[Len(t)] = " " THEN TrimEnd(SubSeq(t, 1, Len(t) - 1)) ELSE t

\* faulty variant: only leading whitespace is removed
TrimStartOnly(t) == TrimStart(t)

\* String.prototype.trim
Trim(t) == TrimEnd(TrimStart(t))

\* `sdx.split(',').map(s => s.trim()).filter(Boolean)`
SplitCodes(t) ==
  SelectSeq([i \in 1..Len(Split(t)) |-> Join(Trim(Split(t)[i]))], LAMBDA part : part # "")

\* `result.sdx || []`
OrEmptyArray(v) ==
  IF v.kind = "absent" \/ (v.kind = "string" /\ v.text = <<>>) THEN RawArray(<<>>) ELSE v

\* `let sdx = result.sdx || []; if (typeof sdx === 'string') sdx = ...`
NormalizeList(v) ==
  LET d == OrEmptyArray(v)
  IN IF d.kind = "string" THEN RawArray(SplitCodes(d.text)) ELSE d

\* the object returned at line 916 (chart_number, dos, tokens_used left out)
extractCodesFromText(r) ==
  [admit_dx |-> OrEmpty(r.admit_dx), pdx |-> OrEmpty(r.pdx),
   sdx |-> NormalizeList(r.sdx), cpt |-> NormalizeList(r.cpt),
   modifier |-> OrEmpty(r.modifier)]

TextsUpTo(n) == UNION {[1..k -> Tokens] : k \in 0..n}

RawListsAll ==
  {RawAbsent, RawOther}
    \cup {RawArray(s) : s \in UNION {[1..k -> TextCodes] : k \in 0..2}}
    \cup {RawString(t) : t \in TextsUpTo(MaxText) \cup {ExampleText}}

RawListsFew == {RawAbsent, RawOther, RawArray(<<"45378">>), RawString(ExampleText)}

RawScalarsAll == ScalarVals \cup {PaddedCode, OtherValue}

RawScalarsFew == {Undefined, "I10"}

\* replies of the model after JSON.parse: one list property or the scalar
\* properties range over all values, the others over a few
LlmResults ==
  {[admit_dx |-> a, pdx |-> p, modifier |-> m, sdx |-> s, cpt |-> c] :
     a \in RawScalarsFew, p \in RawScalarsFew, m \in RawScalarsFew,
     s \in RawListsAll, c \in RawListsFew}
  \cup
  {[admit_dx |-> a, pdx |-> p, modifier |-> m, sdx |-> s, cpt |-> c] :
     a \in RawScalarsFew, p \in RawScalarsFew, m \in RawScalarsFew,
     s \in RawListsFew, c \in RawListsAll}
  \cup
  {[admit_dx |-> a, pdx |-> p, modifier |-> m, sdx |-> s, cpt |-> c] :
     a \in RawScalarsAll, p \in RawScalarsAll, m \in RawScalarsAll,
     s \in RawListsFew, c \in RawListsFew}

NoCodes ==
  [admit_dx |-> "", pdx |-> "", sdx |-> RawArray(<<>>), cpt |-> RawArray(<<>>), modifier |-> ""]

ExtractIdle ==
  /\ llmResult = NoCodes
  /\ codesResult = NoCodes
  /\ epc = "idle"

\* the try block runs to its return
ExtractReturn ==
  /\ epc = "called"
  /\ codesResult' = extractCodesFromText(llmResult)
  /\ epc' = "returned"
  /\ UNCHANGED llmResult

\* the request to the model or JSON.parse throws: the catch returns null
ExtractCatch ==
  /\ epc = "called"
  /\ epc' = "null"
  /\ UNCHANGED <<llmResult, codesResult>>

(***************************************************************************)
(* Argument domains                                                        *)
(***************************************************************************)
ScalarSize(v) == IF v = "" THEN 0 ELSE 1

ListSize(l) == IF l.isArray THEN Len(l.items) ELSE 1

InputSize(r) ==
  ScalarSize(r.admit_dx) + ScalarSize(r.pdx) + ScalarSize(r.modifier)
    + ListSize(r.sdx) + ListSize(r.cpt)

ScalarValsUpTo(n) == IF n >= 1 THEN ScalarVals ELSE {""}

ListValsUpTo(n) ==
  {Arr(s) : s \in UNION {[1..k -> Codes] : k \in 0..n}}
    \cup (IF n >= 1 THEN {NotArray} ELSE {})

\* every coding object of size at most n
ResultsUpTo(n) ==
  UNION {UNION {UNION {UNION {
    {[admit_dx |-> a, pdx |-> p, modifier |-> m, sdx |-> s, cpt |-> c] :
       c \in ListValsUpTo(n - ScalarSize(a) - ScalarSize(p) - ScalarSize(m) - ListSize(s))} :
       s \in ListValsUpTo(n - ScalarSize(a) - ScalarSize(p) - ScalarSize(m))} :
       m \in ScalarValsUpTo(n - ScalarSize(a) - ScalarSize(p))} :
       p \in ScalarValsUpTo(n - ScalarSize(a))} :
       a \in ScalarValsUpTo(n)}

NoResult ==
  [percentage |-> 0,
   details |-> Details([admit_dx |-> "", pdx |-> "", modifier |-> "", sdx |-> Arr(<<>>), cpt |-> Arr(<<>>)],
                       [admit_dx |-> "", pdx |-> "", modifier |-> "", sdx |-> Arr(<<>>), cpt |-> Arr(<<>>)])]

(***************************************************************************)
(* The request handlers around the engine, src/index.js 523-846            *)
(***************************************************************************)
\* requests served at the same time
MaxInFlight == 2

Slots == 1..MaxInFlight

\* values uuidv4() returns
Keys == {"k1", "k2"}

\* a list property of a request body, as calculateAccuracy reads it
ReqList(raw) ==
  [isArray |-> raw.kind = "array", items |-> raw.items, kind |-> raw.kind, text |-> raw.text]

PayloadA ==
  [admit_dx |-> "I10", pdx |-> "E78.5", modifier |-> Undefined,
   sdx |-> ReqList(RawArray(<<"I10", "E78.5">>)), cpt |-> ReqList(RawArray(<<>>))]

PayloadB ==
  [admit_dx |-> PaddedCode, pdx |-> "E78.5", modifier |-> "",
   sdx |-> ReqList(RawArray(<<"E78.5", "Z79.01">>)), cpt |-> ReqList(RawAbsent)]

PayloadS ==
  [admit_dx |-> "I10", pdx |-> "E78.5", modifier |-> Undefined,
   sdx |-> ReqList(RawString(<<"I10", ",", "E78.5">>)), cpt |-> ReqList(RawArray(<<>>))]

NoPayload ==
  [admit_dx |-> Undefined, pdx |-> Undefined, modifier |-> Undefined,
   sdx |-> ReqList(RawAbsent), cpt |-> ReqList(RawAbsent)]

Given(p) == [present |-> TRUE, value |-> p]

Missing == [present |-> FALSE, value |-> NoPayload]

\* what a client sends besides document_key
Submissions ==
  {[original |-> Given(PayloadA), corrected |-> Given(PayloadB), edit_reasons |-> "pdx:typo", remarks |-> "first"],
   [original |-> Missing, corrected |-> Given(PayloadA), edit_reasons |-> Undefined, remarks |-> Undefined],
   [original |-> Given(PayloadA), corrected |-> Missing, edit_reasons |-> Undefined, remarks |-> "none"],
   [original |-> Given(PayloadS), corrected |-> Given(PayloadA), edit_reasons |-> "sdx:added", remarks |-> "second"]}

\* req.body of POST /submit-corrections
Bodies ==
  {[document_key |-> k, original |-> s.original, corrected |-> s.corrected,
    edit_reasons |-> s.edit_reasons, remarks |-> s.remarks] :
     k \in Keys \cup {Undefined}, s \in Submissions}

NoBody ==
  [document_key |-> Undefined, original |-> Missing, corrected |-> Missing,
   edit_reasons |-> Undefined, remarks |-> Undefined]

\* a column holding NULL, or a value
Null(v) == [isNull |-> TRUE, value |-> v]

Stored(v) == [isNull |-> FALSE, value |-> v]

NoRecord ==
  [exists |-> FALSE, status |-> "", ai |-> NoCodes, user |-> Null(NoPayload),
   accuracy |-> Null(NoResult), edit_reasons |-> Undefined, remarks |-> Undefined]

\* the row INSERTed by /extract-codes: user and accuracy columns NULL
PendingRecord(codes) ==
  [exists |-> TRUE, status |-> "pending", ai |-> codes, user |-> Null(NoPayload),
   accuracy |-> Null(NoResult), edit_reasons |-> Undefined, remarks |-> Undefined]

\* a handler of /submit-corrections between its synchronous stretches: its
\* request body, its const accuracyResult, and how its query ended: rejected,
\* or resolved with rowCount 0 or 1 (the handler does not look at rowCount)
FreeSlot == [pc |-> "free", body |-> NoBody, accuracy |-> NoResult, dbResult |-> "none"]

\* what a response answers: the document_key sent, and whether original and
\* corrected were sent
Asked(body) ==
  [document_key |-> body.document_key, hasOriginal |-> body.original.present,
   hasCorrected |-> body.corrected.present]

\* a response: route, HTTP status, what became of the engine call, the
\* request, and the accuracy property of the body (set by Respond)
Response(op, status, engine, body) ==
  [op |-> op, status |-> status, engine |-> engine, request |-> Asked(body),
   accuracy |-> NoResult]

NoReply == Response("none", 0, "notCalled", NoBody)

ServerIdle ==
  /\ records = [k \in Keys |-> NoRecord]
  /\ reqs = [i \in Slots |-> FreeSlot]
  /\ reply = NoReply

\* faulty variant: only document_key is required
RefusedKeyOnly(body) == Falsy(body.document_key)

\* `if (!document_key || !corrected)`
Refused(body) == Falsy(body.document_key) \/ ~body.corrected.present

\* faulty variant: the engine reads a property of the first sdx code, which
\* throws when the array is empty
EngineThrowsOnEmptyList(body) ==
  \/ ~body.original.present
  \/ ~body.corrected.present
  \/ body.original.value.sdx.items = <<>>

\* calculateAccuracy(original, corrected) reads a property of each argument
\* first (lines 274-278): an undefined argument makes it throw a TypeError
EngineThrows(body) == ~body.original.present \/ ~body.corrected.present

\* POST /submit-corrections up to its first await, or to its early response
\* (400 when refused, 500 from the outer catch when the engine throws)
Submit(i) ==
  /\ reqs[i].pc = "free"
  /\ \E body \in Bodies :
       IF Refused(body)
         THEN /\ reply' = Response("submit-corrections", 400, "notCalled", body)
              /\ UNCHANGED reqs
       ELSE IF EngineThrows(body)
         THEN /\ reply' = Response("submit-corrections", 500, "threw", body)
              /\ UNCHANGED reqs
       ELSE /\ reqs' = [reqs EXCEPT ![i] =
                 [FreeSlot EXCEPT !.pc = "awaitUpdate", !.body = body,
                                  !.accuracy = calculateAccuracy(body.original.value,
                                                                 body.corrected.value)]]
            /\ UNCHANGED reply
  /\ UNCHANGED records

\* faulty variant: the UPDATE has no WHERE clause
UpdateTargetsAll(key) == Keys

\* `WHERE document_key = $10`
UpdateTargets(key) == {key}

\* faulty variant: a completed row is left as it is
UpdatedRowOnce(rec, r) == IF rec.status = "completed" THEN rec ELSE
  [rec EXCEPT !.user = Stored(r.body.corrected.value), !.accuracy = Stored(r.accuracy),
              !.edit_reasons = r.body.edit_reasons, !.remarks = r.body.remarks,
              !.status = "completed"]

\* the SET list of the UPDATE
UpdatedRow(rec, r) ==
  [rec EXCEPT !.user = Stored(r.body.corrected.value), !.accuracy = Stored(r.accuracy),
              !.edit_reasons = r.body.edit_reasons, !.remarks = r.body.remarks,
              !.status = "completed"]

\* faulty variant: the statement sets the report columns only
DbUpdateReportOnly(i) ==
  /\ reqs[i].pc = "awaitUpdate"
  /\ records' = [k \in Keys |->
       IF k \in UpdateTargets(reqs[i].body.document_key) /\ records[k].exists
         THEN [records[k] EXCEPT !.accuracy = Stored(reqs[i].accuracy), !.status = "completed"]
         ELSE records[k]]
  /\ reqs' = [reqs EXCEPT ![i].pc = "settled",
                          ![i].dbResult =
                             IF \E k \in UpdateTargets(reqs[i].body.document_key) : records[k].exists
                               THEN "rowCount1" ELSE "rowCount0"]
  /\ UNCHANGED reply

\* the database executes the UPDATE: rows with that key are rewritten
DbUpdate(i) ==
  /\ reqs[i].pc = "awaitUpdate"
  /\ records' = [k \in Keys |->
       IF k \in UpdateTargets(reqs[i].body.document_key) /\ records[k].exists
         THEN UpdatedRow(records[k], reqs[i])
         ELSE records[k]]
  /\ reqs' = [reqs EXCEPT ![i].pc = "settled",
                          ![i].dbResult =
                             IF \E k \in UpdateTargets(reqs[i].body.document_key) : records[k].exists
                               THEN "rowCount1" ELSE "rowCount0"]
  /\ UNCHANGED reply

\* faulty variant: the query is rejected after the row was written
DbRejectAfterWrite(i) ==
  /\ reqs[i].pc = "awaitUpdate"
  /\ records' = [k \in Keys |->
       IF k \in UpdateTargets(reqs[i].body.document_key) /\ records[k].exists
         THEN UpdatedRow(records[k], reqs[i])
         ELSE records[k]]
  /\ reqs' = [reqs EXCEPT ![i].pc = "settled", ![i].dbResult = "rejected"]
  /\ UNCHANGED reply

\* pool.query rejects: the inner catch logs the error
DbReject(i) ==
  /\ reqs[i].pc = "awaitUpdate"
  /\ reqs' = [reqs EXCEPT ![i].pc = "settled", ![i].dbResult = "rejected"]
  /\ UNCHANGED <<records, reply>>

\* faulty variant: a request whose UPDATE matched no row is answered 404
RespondNotFound(i) ==
  /\ reqs[i].pc = "settled"
  /\ reply' = IF reqs[i].dbResult = "rowCount0"
                THEN Response("submit-corrections", 404, "returned", reqs[i].body)
                ELSE [Response("submit-corrections", 200, "returned", reqs[i].body)
                        EXCEPT !.accuracy = reqs[i].accuracy]
  /\ reqs' = [reqs EXCEPT ![i] = FreeSlot]
  /\ UNCHANGED records

\* res.json({ success: true, ..., accuracy: accuracyResult }); the handler ends
Respond(i) ==
  /\ reqs[i].pc = "settled"
  /\ reply' = [Response("submit-corrections", 200, "returned", reqs[i].body)
                 EXCEPT !.accuracy = reqs[i].accuracy]
  /\ reqs' = [reqs EXCEPT ![i] = FreeSlot]
  /\ UNCHANGED records

\* replies of the model the server extracts from: the reply for the sample
\* chart whose codes /extract-codes-test answers with, sdx as a joined string
ServerLlmResults ==
  {[admit_dx |-> "D50.9", pdx |-> "K44.9", modifier |-> "PT",
    sdx |-> RawString(<<"K92.1", ",", " ", "Z86.010", ",", "I25.10", ",", "I10", ",", "E78.5",
                        ",", "Z79.01", ",", "Z79.02", ",", " ", "Z79.899">>),
    cpt |-> RawArray(<<"45378", "43235">>)]}

\* POST /extract-codes with a fresh key: the row is inserted as 'pending'
ExtractCodes ==
  /\ \E k \in Keys, r \in ServerLlmResults :
       /\ ~records[k].exists
       /\ records' = [records EXCEPT ![k] = PendingRecord(extractCodesFromText(r))]
  /\ UNCHANGED <<reqs, reply>>

\* the codes /extract-codes-test answers with, lines 442-450
TestCodes ==
  [admit_dx |-> "D50.9", pdx |-> "K44.9",
   sdx |-> RawArray(<<"K92.1", "Z86.010", "I25.10", "I10", "E78.5", "Z79.01", "Z79.02", "Z79.899">>),
   cpt |-> RawArray(<<"45378", "43235">>), modifier |-> "PT"]

\* faulty variant: on a conflict the row is replaced by the new pending row
ExtractCodesTestOverwriting ==
  /\ \E k \in Keys : records' = [records EXCEPT ![k] = PendingRecord(TestCodes)]
  /\ reply' = Response("extract-codes-test", 200, "notCalled", NoBody)
  /\ UNCHANGED reqs

\* POST /extract-codes-test: INSERT ... 'pending', and ON CONFLICT
\* (document_key) only updated_at is touched; the response is sent whatever
\* the database did
ExtractCodesTest ==
  /\ \E k \in Keys :
       records' = [records EXCEPT ![k] = IF @.exists THEN @ ELSE PendingRecord(TestCodes)]
  /\ reply' = Response("extract-codes-test", 200, "notCalled", NoBody)
  /\ UNCHANGED reqs

\* POST /extract-codes when extractCodesFromText returned null
ExtractCodesFailed ==
  /\ reply' = Response("extract-codes", 500, "notCalled", NoBody)
  /\ UNCHANGED <<records, reqs>>

\* GET /extraction/:documentKey
GetExtraction ==
  /\ \E k \in Keys :
       reply' = Response("extraction", IF records[k].exists THEN 200 ELSE 404, "notCalled", NoBody)
  /\ UNCHANGED <<records, reqs>>

\* GET /analytics: a SELECT of the completed rows
Analytics ==
  /\ reply' = Response("analytics", 200, "notCalled", NoBody)
  /\ UNCHANGED <<records, reqs>>

(***************************************************************************)
(* State machine: one call, then calls on rearranged arguments             *)
(***************************************************************************)
Init ==
  /\ aiCodes \in ResultsUpTo(MaxInput)
  /\ userCodes \in ResultsUpTo(MaxInput - InputSize(aiCodes))
  /\ result = NoResult
  /\ totalFields = 0
  /\ correctFields = 0
  /\ added = [f \in ScalarFields \cup ListFields |-> [total |-> 0, correct |-> 0]]
  /\ last = "init"
  /\ ExtractIdle
  /\ ServerIdle

\* faulty variant: the call reverses the sdx array of its first argument in
\* place
CallReversingInPlace(ai, user, op) ==
  /\ aiCodes' = [ai EXCEPT !.sdx.items = [k \in 1..Len(@) |-> @[Len(@) + 1 - k]]]
  /\ userCodes' = user
  /\ result' = calculateAccuracy(ai, user)
  /\ totalFields' = TotalFields(ai, user)
  /\ correctFields' = CorrectFields(ai, user)
  /\ added' = Added(ai, user)
  /\ last' = op
  /\ UNCHANGED <<extractVars, serverVars>>

\* the call calculateAccuracy(ai, user) and the values of its locals at return
Call(ai, user, op) ==
  /\ aiCodes' = ai
  /\ userCodes' = user
  /\ result' = calculateAccuracy(ai, user)
  /\ totalFields' = TotalFields(ai, user)
  /\ correctFields' = CorrectFields(ai, user)
  /\ added' = Added(ai, user)
  /\ last' = op
  /\ UNCHANGED <<extractVars, serverVars>>

Reconcile ==
  /\ last = "init"
  /\ Call(aiCodes, userCodes, "calculateAccuracy")

InsertAt(s, j, x) == SubSeq(s, 1, j) \o <<x>> \o SubSeq(s, j + 1, Len(s))

SwapAt(s, i) == [k \in 1..Len(s) |-> IF k = i THEN s[i + 1] ELSE IF k = i + 1 THEN s[i] ELSE s[k]]

\* call again with one code of a list repeated somewhere in that list
RepeatCode ==
  /\ last # "init"
  /\ InputSize(aiCodes) + InputSize(userCodes) < MaxInput
  /\ \E f \in ListFields :
       \/ /\ aiCodes[f].isArray
          /\ \E i \in 1..Len(aiCodes[f].items), j \in 0..Len(aiCodes[f].items) :
               Call([aiCodes EXCEPT ![f] = Arr(InsertAt(@.items, j, @.items[i]))], userCodes, "repeat")
       \/ /\ userCodes[f].isArray
          /\ \E i \in 1..Len(userCodes[f].items), j \in 0..Len(userCodes[f].items) :
               Call(aiCodes, [userCodes EXCEPT ![f] = Arr(InsertAt(@.items, j, @.items[i]))], "repeat")

\* call again with two neighbouring codes of a list exchanged
Permute ==
  /\ last # "init"
  /\ \E f \in ListFields :
       \/ /\ aiCodes[f].isArray
          /\ \E i \in 1..(Len(aiCodes[f].items) - 1) :
               /\ aiCodes[f].items[i] # aiCodes[f].items[i + 1]
               /\ Call([aiCodes EXCEPT ![f] = Arr(SwapAt(@.items, i))], userCodes, "permute")
       \/ /\ userCodes[f].isArray
          /\ \E i \in 1..(Len(userCodes[f].items) - 1) :
               /\ userCodes[f].items[i] # userCodes[f].items[i + 1]
               /\ Call(aiCodes, [userCodes EXCEPT ![f] = Arr(SwapAt(@.items, i))], "permute")

Next == Reconcile \/ RepeatCode \/ Permute

Spec == Init /\ [][Next]_vars

CalcIdle ==
  /\ aiCodes = [admit_dx |-> "", pdx |-> "", modifier |-> "", sdx |-> Arr(<<>>), cpt |-> Arr(<<>>)]
  /\ userCodes = aiCodes
  /\ result = NoResult
  /\ totalFields = 0
  /\ correctFields = 0
  /\ added = [f \in ScalarFields \cup ListFields |-> [total |-> 0, correct |-> 0]]
  /\ last = "idle"

InitExtract ==
  /\ llmResult \in LlmResults
  /\ codesResult = NoCodes
  /\ epc = "called"
  /\ CalcIdle
  /\ ServerIdle

NextExtract == (ExtractReturn \/ ExtractCatch) /\ UNCHANGED <<calcVars, serverVars>>

SpecExtract == InitExtract /\ [][NextExtract]_vars

InitServer == ServerIdle /\ CalcIdle /\ ExtractIdle

NextServer ==
  /\ \/ \E i \in Slots : Submit(i)
     \/ \E i \in Slots : DbUpdate(i)
     \/ \E i \in Slots : DbReject(i)
     \/ \E i \in Slots : Respond(i)
     \/ ExtractCodes
     \/ ExtractCodesTest
     \/ ExtractCodesFailed
     \/ GetExtraction
     \/ Analytics
  /\ UNCHANGED <<calcVars, extractVars>>

SpecServer == InitServer /\ [][NextServer]_vars

(***************************************************************************)
(* The call calculateAccuracy(original, corrected) of line 678 on its own: *)
(* here aiCodes and userCodes hold the two argument expressions, each a    *)
(* value or nothing (undefined), and the call is followed by the call with *)
(* the two arguments exchanged.                                            *)
(***************************************************************************)
\* a code that differs from "I10" in letter case only
LowerCode == "i10"

CallPayloads ==
  {[admit_dx |-> a, pdx |-> p, modifier |-> m, sdx |-> s, cpt |-> c] :
     a \in {Undefined, "", "I10", LowerCode, PaddedCode},
     p \in {Undefined, "I10"},
     m \in {"", "I10"},
     s \in {Arr(<<>>), Arr(<<"I10">>), Arr(<<"I10", "I10">>), Arr(<<"I10", "E78.5">>),
            Arr(<<"E78.5", "Z79.01">>), NotArray},
     c \in {Arr(<<>>), Arr(<<"Z79.01">>)}}

CallArguments == {Missing} \cup {Given(p) : p \in CallPayloads}

InitCall ==
  /\ aiCodes \in CallArguments
  /\ userCodes \in CallArguments
  /\ result = NoResult
  /\ totalFields = 0
  /\ correctFields = 0
  /\ added = [f \in ScalarFields \cup ListFields |-> [total |-> 0, correct |-> 0]]
  /\ last = "init"
  /\ ExtractIdle
  /\ ServerIdle

\* the values the call leaves behind when it returns
Returns(ai, user, op) ==
  /\ result' = calculateAccuracy(ai, user)
  /\ totalFields' = TotalFields(ai, user)
  /\ correctFields' = CorrectFields(ai, user)
  /\ added' = Added(ai, user)
  /\ last' = op

\* the call: a TypeError when an argument is undefined, else the report
CallEngine ==
  /\ last = "init"
  /\ IF EngineThrows([original |-> aiCodes, corrected |-> userCodes])
       THEN /\ last' = "threw"
            /\ UNCHANGED <<result, totalFields, correctFields, added>>
       ELSE Returns(aiCodes.value, userCodes.value, "calculateAccuracy")
  /\ UNCHANGED <<aiCodes, userCodes>>

\* the call calculateAccuracy(corrected, original)
CallSwapped ==
  /\ last = "calculateAccuracy"
  /\ aiCodes' = userCodes
  /\ userCodes' = aiCodes
  /\ Returns(userCodes.value, aiCodes.value, "swapped")

NextCall == (CallEngine \/ CallSwapped) /\ UNCHANGED <<extractVars, serverVars>>

SpecCall == InitCall /\ [][NextCall]_vars

Returned == last \notin {"init", "idle"}

TypeOK ==
  /\ last \in {"init", "calculateAccuracy", "repeat", "permute"}
  /\ totalFields \in Nat
  /\ correctFields \in Nat
  /\ InputSize(aiCodes) + InputSize(userCodes) <= MaxInput

(***************************************************************************)
(* Properties of calculateAccuracy                                         *)
(***************************************************************************)
Range(s) == {s[i] : i \in 1..Len(s)}

Absent(v) == v \in {"", Undefined}

AllFields == ScalarFields \cup ListFields

\* r has at least one non-empty field
NonEmptyResult(r) ==
  \/ \E f \in ScalarFields : ~Absent(r[f])
  \/ \E f \in ListFields : r[f].isArray /\ Len(r[f].items) > 0

Hundred == 100 * Scale

\* C1: comparing a coding result with at least one non-empty field against
\* itself returns percentage exactly 100, also when a list repeats a code.
C1_SelfCompareIs100 ==
  (Returned /\ aiCodes = userCodes /\ NonEmptyResult(aiCodes))
    => result.percentage = Hundred

\* C2: the returned percentage lies between 0 and 100 inclusive, i.e. the
\* numerator correctFields never exceeds the denominator totalFields.
C2_PercentageInRange ==
  Returned => /\ result.percentage >= 0
              /\ result.percentage <= Hundred
              /\ correctFields <= totalFields

\* C3: a list field whose ai and user sequences are not both empty adds the
\* number of distinct codes of their union to the denominator and the number
\* of distinct codes of their intersection to the numerator; a list field
\* with both sequences empty adds nothing.
C3_ListContribution ==
  Returned =>
    \A f \in ListFields :
      LET d == result.details[f]
      IN IF Len(d.ai) = 0 /\ Len(d.user) = 0
           THEN added[f].total = 0 /\ added[f].correct = 0
           ELSE /\ added[f].total = Cardinality(Range(d.ai) \cup Range(d.user))
                /\ added[f].correct = Cardinality(Range(d.ai) \cap Range(d.user))

\* C4: repeating a code that already occurs in a list of ai or of user
\* leaves the returned percentage unchanged.
C4_MultiplicityIrrelevant ==
  [][last' = "repeat" => result'.percentage = result.percentage]_vars

\* C5: permuting the elements of a list of ai or of user leaves the
\* percentage unchanged and leaves matches, additions and removals unchanged
\* as sets.
C5_OrderIrrelevant ==
  [][last' = "permute" =>
       /\ result'.percentage = result.percentage
       /\ \A f \in ListFields :
            /\ Range(result'.details[f].matches) = Range(result.details[f].matches)
            /\ Range(result'.details[f].additions) = Range(result.details[f].additions)
            /\ Range(result'.details[f].removals) = Range(result.details[f].removals)]_vars

C5_Witness ==
  /\ last = "permute"
  /\ Len(result.details.sdx.matches) > 0
  /\ Len(result.details.sdx.additions) > 0
  /\ Len(result.details.sdx.removals) > 0
  /\ result.percentage > 0
  /\ result.percentage < Hundred

\* positions of seq whose element lies in S
Kept(seq, S) == {i \in 1..Len(seq) : seq[i] \in S}

\* sub is seq restricted to the elements in S, in the order of seq
IsSubsequenceOn(sub, seq, S) ==
  /\ Len(sub) = Cardinality(Kept(seq, S))
  /\ \A k \in 1..Len(sub) :
       \E i \in Kept(seq, S) :
         /\ sub[k] = seq[i]
         /\ Cardinality({j \in Kept(seq, S) : j <= i}) = k

\* C6: for each list field, matches is the subsequence of ai whose codes
\* occur in user, removals the subsequence of ai whose codes do not occur in
\* user (both in AI order), additions the subsequence of user whose codes do
\* not occur in ai (user order); ai sdx [I10, E78.5] against user sdx
\* [E78.5, Z79.01] gives matches [E78.5], removals [I10], additions [Z79.01],
\* 3 added to the denominator and 1 to the numerator.
C6_ListDetails ==
  Returned =>
    /\ \A f \in ListFields :
         LET d == result.details[f]
         IN /\ IsSubsequenceOn(d.matches, d.ai, Range(d.user))
            /\ IsSubsequenceOn(d.removals, d.ai, Codes \ Range(d.user))
            /\ IsSubsequenceOn(d.additions, d.user, Codes \ Range(d.ai))
    /\ (aiCodes.sdx = Arr(<<"I10", "E78.5">>) /\ userCodes.sdx = Arr(<<"E78.5", "Z79.01">>))
         => /\ result.details.sdx.matches = <<"E78.5">>
            /\ result.details.sdx.removals = <<"I10">>
            /\ result.details.sdx.additions = <<"Z79.01">>
            /\ added.sdx.total = 3
            /\ added.sdx.correct = 1

C6_Witness ==
  /\ Returned
  /\ aiCodes.sdx = Arr(<<"I10", "E78.5">>)
  /\ userCodes.sdx = Arr(<<"E78.5", "Z79.01">>)
  /\ result.details.sdx.removals = <<"I10">>

\* C7: a scalar field whose ai value and user value are both empty or absent
\* is excluded: it adds nothing to the denominator or the numerator (which
\* are the sums of the other fields' contributions), and its match flag in
\* the report is false.
C7_BothAbsentExcluded ==
  Returned =>
    \A f \in ScalarFields :
      (Absent(aiCodes[f]) /\ Absent(userCodes[f])) =>
        /\ added[f].total = 0
        /\ added[f].correct = 0
        /\ result.details[f].match = FALSE
        /\ \E g1, g2, g3, g4 \in AllFields \ {f} :
             /\ Cardinality({g1, g2, g3, g4}) = 4
             /\ totalFields = added[g1].total + added[g2].total + added[g3].total + added[g4].total
             /\ correctFields = added[g1].correct + added[g2].correct
                                  + added[g3].correct + added[g4].correct

C7_Witness ==
  /\ Returned
  /\ Absent(aiCodes.modifier)
  /\ Absent(userCodes.modifier)
  /\ aiCodes.admit_dx = "I10"
  /\ userCodes.admit_dx = "E78.5"
  /\ aiCodes.pdx = "E78.5"
  /\ userCodes.pdx = "I10"
  /\ totalFields = 2
  /\ correctFields = 0

BothPresentIdentical(a, u) == ~Absent(a) /\ ~Absent(u) /\ a = u

\* C8 (as stated): a scalar field's match is true if and only if both values
\* are present and textually identical, or both are absent.
C8_MatchIffIdenticalOrBothAbsent ==
  Returned =>
    \A f \in ScalarFields :
      result.details[f].match
        <=> \/ BothPresentIdentical(aiCodes[f], userCodes[f])
            \/ (Absent(aiCodes[f]) /\ Absent(userCodes[f]))

\* C8 (amended): a scalar field's match is true if and only if both values
\* are present and textually identical; when both are absent it is false.
C8_MatchIffPresentIdentical ==
  Returned =>
    \A f \in ScalarFields :
      result.details[f].match <=> BothPresentIdentical(aiCodes[f], userCodes[f])

C8_Witness ==
  /\ Returned
  /\ result.details.admit_dx.match
  /\ aiCodes.admit_dx = "I10"
  /\ Absent(aiCodes.pdx)
  /\ Absent(userCodes.pdx)
  /\ ~result.details.pdx.match

\* C9: the percentage is 100 when the denominator is 0 (in particular when
\* both results are empty in every field) and otherwise is
\* numerator / denominator * 100 rounded to 2 decimals.
C9_PercentageFormula ==
  Returned =>
    IF totalFields = 0
      THEN result.percentage = Hundred
      ELSE result.percentage
             = ((2 * 100 * 100 * correctFields + totalFields) \div (2 * totalFields))
                 * (Scale \div 100)

C9_Witness ==
  /\ Returned
  /\ ~NonEmptyResult(aiCodes)
  /\ ~NonEmptyResult(userCodes)
  /\ totalFields = 0
  /\ result.percentage = Hundred

Abs(x) == IF x < 0 THEN -x ELSE x

\* C10: the percentage has at most 2 decimal places and is the value nearest
\* to numerator / denominator * 100 among those; numerator 1 and denominator
\* 3 give 33.33.
C10_TwoDecimals ==
  Returned =>
    /\ result.percentage % (Scale \div 100) = 0
    /\ totalFields > 0 =>
         2 * Abs(result.percentage * totalFields - correctFields * Hundred)
           <= (Scale \div 100) * totalFields
    /\ (correctFields = 1 /\ totalFields = 3) => result.percentage = 33 * Scale + 33 * (Scale \div 100)

C10_Witness ==
  /\ Returned
  /\ correctFields = 1
  /\ totalFields = 3
  /\ result.percentage = 333300

\* every field of r other than admit_dx is empty
OnlyAdmitDx(r) ==
  /\ ~Absent(r.admit_dx)
  /\ \A f \in ScalarFields \ {"admit_dx"} : Absent(r[f])
  /\ \A f \in ListFields : ArrayOrEmpty(r[f]) = <<>>

\* C21: a scalar field with at least one non-empty value adds exactly 1 to
\* the denominator, adds 1 to the numerator if and only if the two values are
\* exactly equal, and has match set to that equality; ai admit_dx A against
\* user admit_dx B with every other field empty scores 0.
C21_ScalarContribution ==
  Returned =>
    /\ \A f \in ScalarFields :
         (~Absent(aiCodes[f]) \/ ~Absent(userCodes[f]))
           => /\ added[f].total = 1
              /\ added[f].correct = (IF aiCodes[f] = userCodes[f] THEN 1 ELSE 0)
              /\ result.details[f].match = (aiCodes[f] = userCodes[f])
    /\ (OnlyAdmitDx(aiCodes) /\ OnlyAdmitDx(userCodes) /\ aiCodes.admit_dx # userCodes.admit_dx)
         => /\ totalFields = 1
            /\ correctFields = 0
            /\ result.percentage = 0

C21_Witness ==
  /\ Returned
  /\ OnlyAdmitDx(aiCodes)
  /\ OnlyAdmitDx(userCodes)
  /\ aiCodes.admit_dx = "I10"
  /\ userCodes.admit_dx = "E78.5"
  /\ result.percentage = 0
  /\ ~result.details.admit_dx.match

\* C23: calculateAccuracy leaves both argument objects unchanged: after the
\* call every scalar field and every list field (contents and order) of ai
\* and of user is what it was before the call.
C23_ArgumentsUnchanged ==
  [][last' = "calculateAccuracy" =>
       /\ \A f \in ScalarFields : aiCodes'[f] = aiCodes[f] /\ userCodes'[f] = userCodes[f]
       /\ \A f \in ListFields : aiCodes'[f] = aiCodes[f] /\ userCodes'[f] = userCodes[f]]_vars

C23_Witness ==
  /\ last = "calculateAccuracy"
  /\ aiCodes.sdx = Arr(<<"I10", "E78.5">>)
  /\ userCodes.sdx = Arr(<<"E78.5", "Z79.01">>)
  /\ result.details.sdx.matches = <<"E78.5">>
  /\ result.details.sdx.ai = <<"I10", "E78.5">>

\* how often code occurs in seq
Count(seq, code) == Cardinality({i \in 1..Len(seq) : seq[i] = code})

\* C25: for each list field, every position of the ai sequence lands in
\* exactly one of matches and removals (matches followed by removals is a
\* rearrangement of ai), no code of additions occurs in ai, and matches,
\* additions and removals are pairwise disjoint as sets.
C25_ListPartition ==
  Returned =>
    \A f \in ListFields :
      LET d == result.details[f]
      IN /\ Len(d.matches) + Len(d.removals) = Len(d.ai)
         /\ \A c \in Codes : Count(d.matches \o d.removals, c) = Count(d.ai, c)
         /\ Range(d.additions) \cap Range(d.ai) = {}
         /\ Range(d.matches) \cap Range(d.removals) = {}
         /\ Range(d.matches) \cap Range(d.additions) = {}
         /\ Range(d.additions) \cap Range(d.removals) = {}

C25_Witness ==
  /\ Returned
  /\ result.details.sdx.ai = <<"I10", "E78.5", "I10">>
  /\ result.details.sdx.matches = <<"I10", "I10">>
  /\ result.details.sdx.removals = <<"E78.5">>
  /\ result.details.sdx.user = <<"I10">>
  /\ result.details.sdx.additions = <<>>

\* the call of the arguments held in aiCodes and userCodes has returned
CallReturned == last \in {"calculateAccuracy", "swapped"}

\* C22: scalar values are normalized only by defaulting: an absent or null
\* scalar becomes the empty string and any other value is used unchanged;
\* the comparison is exact, without case-folding: codes that differ only in
\* letter case do not match.
C22_ScalarsDefaultedExactCompare ==
  CallReturned =>
    \A f \in ScalarFields :
      LET a == aiCodes.value[f]
          u == userCodes.value[f]
          d == result.details[f]
      IN /\ d.ai = (IF a = Undefined THEN "" ELSE a)
         /\ d.user = (IF u = Undefined THEN "" ELSE u)
         /\ d.match <=> (d.ai = d.user /\ d.ai # "")
         /\ added[f].correct = (IF d.match THEN 1 ELSE 0)
         /\ (a = "I10" /\ u = LowerCode) => (~d.match /\ added[f].total = 1 /\ added[f].correct = 0)

C22_Witness ==
  /\ last = "calculateAccuracy"
  /\ aiCodes.value.admit_dx = "I10"
  /\ userCodes.value.admit_dx = LowerCode
  /\ ~result.details.admit_dx.match
  /\ result.details.admit_dx.user = LowerCode
  /\ aiCodes.value.pdx = Undefined
  /\ result.details.pdx.ai = ""
  /\ result.details.pdx.user = "I10"

\* p is a well-formed coding result: scalars are strings, lists are arrays
WellFormed(p) ==
  /\ p.present
  /\ \A f \in ScalarFields : p.value[f] # Undefined
  /\ \A f \in ListFields : p.value[f].isArray

\* r is a report: a percentage and the five field entries
IsReport(r) ==
  /\ r.percentage \in Nat
  /\ \A f \in ScalarFields :
       r.details[f].match \in BOOLEAN /\ r.details[f].ai # Undefined /\ r.details[f].user # Undefined
  /\ \A f \in ListFields :
       /\ Range(r.details[f].matches) \subseteq Range(r.details[f].ai)
       /\ Range(r.details[f].removals) \subseteq Range(r.details[f].ai)
       /\ Range(r.details[f].additions) \subseteq Range(r.details[f].user)

\* C24: calculateAccuracy is total on well-formed input: for every pair of
\* coding results whose scalar fields are strings and whose list fields are
\* sequences of strings, the call raises no error and returns a report.
C24_TotalOnWellFormed ==
  (WellFormed(aiCodes) /\ WellFormed(userCodes) /\ last # "init")
    => /\ last # "threw"
       /\ CallReturned
       /\ IsReport(result)

C24_Witness ==
  /\ last = "calculateAccuracy"
  /\ WellFormed(aiCodes)
  /\ WellFormed(userCodes)
  /\ aiCodes.value.sdx = Arr(<<>>)
  /\ userCodes.value.sdx = Arr(<<"I10", "E78.5">>)
  /\ aiCodes.value.admit_dx = ""
  /\ result.details.sdx.additions = <<"I10", "E78.5">>

\* no list of r repeats a code
NoRepeats(r) ==
  \A f \in ListFields :
    \A i, j \in 1..Len(ArrayOrEmpty(r[f])) :
      ArrayOrEmpty(r[f])[i] = ArrayOrEmpty(r[f])[j] => i = j

\* C26: for coding results whose lists repeat no code, exchanging the two
\* arguments gives the same percentage, the same scalar match flags and the
\* same matches as a set, and exchanges additions with removals.
C26_SwapSymmetry ==
  [][(last' = "swapped" /\ NoRepeats(aiCodes.value) /\ NoRepeats(userCodes.value)) =>
       /\ result'.percentage = result.percentage
       /\ \A f \in ScalarFields : result'.details[f].match = result.details[f].match
       /\ \A f \in ListFields :
            /\ Range(result'.details[f].matches) = Range(result.details[f].matches)
            /\ result'.details[f].additions = result.details[f].removals
            /\ result'.details[f].removals = result.details[f].additions]_vars

C26_Witness ==
  /\ last = "swapped"
  /\ aiCodes.value.sdx = Arr(<<"E78.5", "Z79.01">>)
  /\ userCodes.value.sdx = Arr(<<"I10", "E78.5">>)
  /\ result.details.sdx.additions = <<"I10">>
  /\ result.details.sdx.removals = <<"Z79.01">>
  /\ result.details.sdx.matches = <<"E78.5">>
  /\ result.details.admit_dx.match
  /\ ~result.details.pdx.match

(***************************************************************************)
(* Properties of extractCodesFromText                                      *)
(***************************************************************************)
\* positions around the comma-free stretches of t
Cuts(t) == {0, Len(t) + 1} \cup {i \in 1..Len(t) : t[i] = ","}

\* the stretches <<a, b>> of t between neighbouring cuts that hold a
\* character other than whitespace
Stretches(t) ==
  {ab \in Cuts(t) \X Cuts(t) :
     /\ ab[1] < ab[2]
     /\ ~\E c \in Cuts(t) : ab[1] < c /\ c < ab[2]
     /\ \E i \in (ab[1] + 1)..(ab[2] - 1) : t[i] # " "}

\* a stretch without the whitespace at its two ends
Core(t, ab) ==
  LET inked == {i \in (ab[1] + 1)..(ab[2] - 1) : t[i] # " "}
      lo == CHOOSE i \in inked : \A j \in inked : i <= j
      hi == CHOOSE i \in inked : \A j \in inked : j <= i
  IN SubSeq(t, lo, hi)

\* out lists the trimmed non-blank stretches of t from left to right
IsCommaList(out, t) ==
  /\ Len(out) = Cardinality(Stretches(t))
  /\ \A k \in 1..Len(out) :
       \E ab \in Stretches(t) :
         /\ Cardinality({cd \in Stretches(t) : cd[1] <= ab[1]}) = k
         /\ out[k] = Join(Core(t, ab))

\* C17: a list field supplied as a comma-joined string is split on commas,
\* each part trimmed, empty parts dropped, order preserved (cpt
\* "45378, 43235 ,  " becomes [45378, 43235]); an absent list field becomes
\* the empty sequence.
C17_StringToList ==
  epc = "returned" =>
    /\ \A f \in ListFields :
         /\ llmResult[f].kind = "string" =>
              /\ codesResult[f].kind = "array"
              /\ IsCommaList(codesResult[f].items, llmResult[f].text)
         /\ llmResult[f].kind = "absent" => codesResult[f] = RawArray(<<>>)
    /\ llmResult.cpt = RawString(ExampleText)
         => codesResult.cpt = RawArray(<<"45378", "43235">>)

C17_Witness ==
  /\ epc = "returned"
  /\ llmResult.cpt = RawString(ExampleText)
  /\ codesResult.cpt.items = <<"45378", "43235">>
  /\ llmResult.sdx = RawAbsent
  /\ codesResult.sdx.items = <<>>

\* C19: normalization is total: a field whose value is neither a list nor a
\* string nor absent is replaced by its empty representation (empty sequence
\* for sdx and cpt, empty string for scalars), and no error is raised.
C19_UnknownShapesDefaulted ==
  epc = "returned" =>
    /\ \A f \in ListFields :
         llmResult[f].kind \notin {"array", "string", "absent"}
           => codesResult[f] = RawArray(<<>>)
    /\ \A f \in ScalarFields :
         llmResult[f] = OtherValue => codesResult[f] = ""

(***************************************************************************)
(* Properties of POST /submit-corrections                                  *)
(***************************************************************************)
Busy(i) == reqs[i].pc # "free"

KeyOf(i) == reqs[i].body.document_key

\* this step is the database applying the UPDATE of handler i
Applies(i) == reqs[i].pc = "awaitUpdate" /\ reqs'[i].pc = "settled" /\ reqs'[i].dbResult # "rejected"

\* this step is handler i sending its success response
Succeeds(i) == reqs[i].pc = "settled" /\ reqs'[i].pc = "free"

\* this step sends a new response of /submit-corrections
Answers == reply' # reply /\ reply'.op = "submit-corrections"

\* C12: a request whose document_key or corrected result is missing is
\* refused with HTTP 400 before calculateAccuracy is invoked, it changes no
\* stored record, and no handler goes on to the engine or the database with
\* such a request.
C12_MissingInputRefused ==
  [][/\ (Answers /\ (Absent(reply'.request.document_key) \/ ~reply'.request.hasCorrected))
          => /\ reply'.status = 400
             /\ reply'.engine = "notCalled"
             /\ records' = records
             /\ reqs' = reqs
     /\ \A i \in Slots :
          reqs'[i].pc # "free"
            => ~Absent(reqs'[i].body.document_key) /\ reqs'[i].body.corrected.present]_vars

C12_Witness ==
  /\ reply.op = "submit-corrections"
  /\ reply.status = 400
  /\ reply.request.document_key = "k1"
  /\ ~reply.request.hasCorrected
  /\ records["k1"].exists
  /\ records["k1"].status = "pending"

\* C13: calculateAccuracy is invoked only when both the AI result (original)
\* and the corrected result are present; no request makes calculateAccuracy
\* fail on an absent argument.
C13_EngineArgumentsPresent ==
  /\ reply.engine # "threw"
  /\ reply.engine = "returned" => reply.request.hasOriginal /\ reply.request.hasCorrected
  /\ \A i \in Slots : Busy(i) => reqs[i].body.original.present /\ reqs[i].body.corrected.present

\* C14: every request answered with success has its accuracy report persisted
\* on the record with its document_key, together with the corrected fields and
\* the edit reasons, and that record's status is 'completed'.
C14_SuccessMeansPersisted ==
  [][\A i \in Slots :
       Succeeds(i) =>
         LET rec == records'[KeyOf(i)]
         IN /\ rec.exists
            /\ rec.status = "completed"
            /\ rec.accuracy = Stored(reqs[i].accuracy)
            /\ rec.user = Stored(reqs[i].body.corrected.value)
            /\ rec.edit_reasons = reqs[i].body.edit_reasons]_vars

\* C15: a record stores the report of the submission applied to it most
\* recently (each applied submission overwrites the stored report), and no
\* other operation changes a stored report.
C15_LastAppliedReportStored ==
  [][\A k \in Keys :
       /\ \A i \in Slots :
            (Applies(i) /\ KeyOf(i) = k /\ records[k].exists)
              => records'[k].accuracy = Stored(reqs[i].accuracy)
       /\ records'[k].accuracy # records[k].accuracy
            => \E i \in Slots :
                 /\ Applies(i)
                 /\ KeyOf(i) = k
                 /\ records'[k].accuracy = Stored(reqs[i].accuracy)]_vars

C15_Witness ==
  \E i, j \in Slots :
    /\ i # j
    /\ reqs[i].pc = "settled" /\ reqs[i].dbResult = "rowCount1"
    /\ reqs[j].pc = "settled" /\ reqs[j].dbResult = "rowCount1"
    /\ KeyOf(i) = KeyOf(j)
    /\ reqs[i].accuracy # reqs[j].accuracy
    /\ records[KeyOf(i)].accuracy = Stored(reqs[i].accuracy)

\* C16: requests for different document keys do not interfere: a step of one
\* changes neither the other's report nor the other's record, every handler
\* holds the report of its own arguments, and its applied update stores that
\* report on its record.
C16_DifferentKeysIndependent ==
  [][/\ \A i, j \in Slots :
          (/\ i # j
           /\ Busy(i)
           /\ reqs'[j] # reqs[j]
           /\ (IF Busy(j) THEN KeyOf(j) ELSE reqs'[j].body.document_key) # KeyOf(i))
            => /\ reqs'[i] = reqs[i]
               /\ records'[KeyOf(i)] = records[KeyOf(i)]
     /\ \A i \in Slots :
          /\ (reqs'[i].pc # "free" /\ reqs'[i] # reqs[i])
               => reqs'[i].accuracy = calculateAccuracy(reqs'[i].body.original.value,
                                                        reqs'[i].body.corrected.value)
          /\ (Applies(i) /\ reqs'[i].dbResult = "rowCount1")
               => records'[KeyOf(i)].accuracy = Stored(reqs[i].accuracy)]_vars

C16_Witness ==
  \E i, j \in Slots :
    /\ reqs[i].pc = "settled" /\ reqs[i].dbResult = "rowCount1"
    /\ reqs[j].pc = "settled" /\ reqs[j].dbResult = "rowCount1"
    /\ KeyOf(i) # KeyOf(j)
    /\ reqs[i].accuracy # reqs[j].accuracy
    /\ records[KeyOf(i)].accuracy = Stored(reqs[i].accuracy)
    /\ records[KeyOf(j)].accuracy = Stored(reqs[j].accuracy)

\* C18: both inputs are normalized before comparison: a list field sent as a
\* comma-joined string is compared as its split-and-trimmed list of codes, so
\* ai sdx "I10,E78.5" against user sdx [I10, E78.5] yields matches
\* [I10, E78.5].
C18_StringListsCompared ==
  \A i \in Slots :
    Busy(i) =>
      /\ \A f \in ListFields :
           /\ reqs[i].body.original.value[f].kind = "string"
                => reqs[i].accuracy.details[f].ai
                     = SplitCodes(reqs[i].body.original.value[f].text)
           /\ reqs[i].body.corrected.value[f].kind = "string"
                => reqs[i].accuracy.details[f].user
                     = SplitCodes(reqs[i].body.corrected.value[f].text)
      /\ (/\ reqs[i].body.original.value.sdx = ReqList(RawString(<<"I10", ",", "E78.5">>))
          /\ reqs[i].body.corrected.value.sdx = ReqList(RawArray(<<"I10", "E78.5">>)))
           => reqs[i].accuracy.details.sdx.matches = <<"I10", "E78.5">>

\* v begins or ends with whitespace
HasOuterWhitespace(v) ==
  \E t \in UNION {[1..n -> {" "} \cup ScalarCodes] : n \in 1..3} :
    Join(t) = v /\ (t[1] = " " \/ t[Len(t)] = " ")

\* the ai and user values the report of handler i records for scalar field f,
\* each with the value that was sent
ScalarPairs(i, f) ==
  {<<reqs[i].accuracy.details[f].ai, reqs[i].body.original.value[f]>>,
   <<reqs[i].accuracy.details[f].user, reqs[i].body.corrected.value[f]>>}

SendsReport(i) ==
  /\ reply'.op = "submit-corrections"
  /\ reply'.status = 200
  /\ reply'.request = Asked(reqs[i].body)
  /\ reply'.accuracy = calculateAccuracy(reqs[i].body.original.value, reqs[i].body.corrected.value)

\* C27: when the UPDATE of a submission fails, the failure is swallowed: the
\* request is still answered with success and the computed report, and no
\* step of the request changes a stored record.
C27_UpdateFailureSwallowed ==
  [][\A i \in Slots :
       /\ (reqs'[i].pc = "settled" /\ reqs[i].pc = "awaitUpdate" /\ reqs'[i].dbResult = "rejected")
            => /\ records' = records
               /\ reqs'[i].accuracy = reqs[i].accuracy
       /\ (reqs[i].pc = "settled" /\ reqs[i].dbResult = "rejected")
            => /\ reqs'[i] # reqs[i] => (Succeeds(i) /\ SendsReport(i))
               /\ Succeeds(i) => records' = records]_vars

C27_Witness ==
  \E i \in Slots :
    /\ reqs[i].pc = "settled"
    /\ reqs[i].dbResult = "rejected"
    /\ records[KeyOf(i)].exists
    /\ records[KeyOf(i)].status = "pending"
    /\ records[KeyOf(i)].accuracy.isNull

\* C28: a submission whose document_key matches no stored record creates no
\* record and changes no record, yet is answered with success and the
\* computed report.
C28_UnknownKeyNoEffect ==
  [][\A i \in Slots :
       /\ (Applies(i) /\ ~records[KeyOf(i)].exists)
            => /\ records' = records
               /\ reqs'[i].dbResult = "rowCount0"
       /\ (reqs[i].pc = "settled" /\ reqs[i].dbResult = "rowCount0")
            => /\ reqs'[i] # reqs[i] => (Succeeds(i) /\ SendsReport(i))
               /\ Succeeds(i) => records' = records]_vars

C28_Witness ==
  /\ reply.op = "submit-corrections"
  /\ reply.status = 200
  /\ reply.request.document_key = "k1"
  /\ reply.accuracy # NoResult
  /\ ~records["k1"].exists
  /\ records["k2"].exists
  /\ records["k2"].status = "pending"

\* C29: a record is created with status 'pending' and no accuracy report; a
\* record has a stored accuracy if and only if its status is 'completed';
\* and a record that is 'completed' never returns to 'pending' (nor
\* disappears) under any extraction, submission or read request.
C29_StatusTracksAccuracy ==
  /\ [](\A k \in Keys :
          records[k].exists
            => /\ records[k].status \in {"pending", "completed"}
               /\ ~records[k].accuracy.isNull <=> records[k].status = "completed")
  /\ [][\A k \in Keys :
          /\ (~records[k].exists /\ records'[k].exists)
               => records'[k].status = "pending" /\ records'[k].accuracy.isNull
          /\ (records[k].exists /\ records[k].status = "completed")
               => records'[k].exists /\ records'[k].status = "completed"]_vars

C29_Witness ==
  /\ records["k1"].exists
  /\ records["k1"].status = "completed"
  /\ ~records["k1"].accuracy.isNull
  /\ reply.op = "extract-codes-test"
  /\ records["k2"].exists
  /\ records["k2"].status = "pending"

\* the columns a submission writes are those of the request of handler i
HoldsRequest(rec, r) ==
  /\ rec.user = Stored(r.body.corrected.value)
  /\ rec.accuracy = Stored(calculateAccuracy(r.body.original.value, r.body.corrected.value))
  /\ rec.edit_reasons = r.body.edit_reasons
  /\ rec.remarks = r.body.remarks

\* C30: when submissions for the same document_key run concurrently, under
\* every interleaving the record holds the user fields, report, edit reasons
\* and remarks of exactly one request, the one whose UPDATE was applied last,
\* never a mixture of two requests.
C30_NoMixedRecord ==
  /\ [](\A k \in Keys :
          (records[k].exists /\ records[k].status = "completed")
            => \E body \in Bodies :
                 /\ body.document_key = k
                 /\ ~Refused(body) /\ ~EngineThrows(body)
                 /\ HoldsRequest(records[k], [body |-> body]))
  /\ [][\A i \in Slots :
          (Applies(i) /\ reqs'[i].dbResult = "rowCount1")
            => HoldsRequest(records'[KeyOf(i)], reqs[i])]_vars

C30_Witness ==
  \E i, j \in Slots :
    /\ i # j
    /\ reqs[i].pc = "settled" /\ reqs[i].dbResult = "rowCount1"
    /\ reqs[j].pc = "settled" /\ reqs[j].dbResult = "rowCount1"
    /\ KeyOf(i) = KeyOf(j)
    /\ reqs[i].body.remarks # reqs[j].body.remarks
    /\ reqs[i].body.corrected # reqs[j].body.corrected
    /\ HoldsRequest(records[KeyOf(i)], reqs[i])
    /\ ~HoldsRequest(records[KeyOf(i)], reqs[j])

====
